---- MODULE Spec2Model ----
(***************************************************************************)
(* Model of intervals-icu-bot: the Strong export parser, its admissibility *)
(* gate and its report (strong_parser.py), the activity the Intervals      *)
(* client submits (intervals_client.py), the handlers of the Telegram bot  *)
(* (telegram_bot.py) and the startup (main.py, config.py).                 *)
(* A line of text is a sequence of one-character strings; the three set    *)
(* grammars are regular expressions run by a backtracking matcher that     *)
(* returns, like Python's re.search, the first match in priority order.    *)
(***************************************************************************)
EXTENDS Integers, Sequences, FiniteSets, TLC

(***************************************************************************)
(* Bounds of the model.                                                    *)
(***************************************************************************)
\* lines of the text after the name line and the date line
MaxBody == 3
\* digits in a weight written on a generated set line
MaxDigits == 2
\* sets already in the open exercise when a single line is processed
MaxSets == 2
\* calls of format_workout_description on one workout
MaxCalls == 2
\* lines of a text handed to is_strong_workout
MaxGateLines == 2
\* set lines of a reported workout after its first exercise-name line
MaxReportLines == 2
\* lines after the date line of a text with several exercises
MaxOrderLines == 4

(***************************************************************************)
(* Characters.  Non-ASCII characters of the source get ASCII names.        *)
(***************************************************************************)
EAcute == "e'"
AAcute == "a'"
CCedil == "c,"
Times == "x*"
\* a run of decimal digits longer than the interpreter accepts in int()
LongDigits == "9.."
\* a run of decimal digits that int() accepts and that is beyond the range of
\* a float (over 308 digits): float() gives inf
HugeDigits == "9.~"

DecDigits == {"0", "1", "2", "3", "4", "5", "6", "7", "8", "9"}
DigitChars == DecDigits \cup {LongDigits, HugeDigits}
SpaceChars == {" ", "\n"}

DigitVal ==
  ("0" :> 0) @@ ("1" :> 1) @@ ("2" :> 2) @@ ("3" :> 3) @@ ("4" :> 4) @@
  ("5" :> 5) @@ ("6" :> 6) @@ ("7" :> 7) @@ ("8" :> 8) @@ ("9" :> 9)

\* str.lower() / re.IGNORECASE folding on the letters the lines use
LowerMap ==
  ("S" :> "s") @@ ("E" :> "e") @@ ("T" :> "t") @@ ("W" :> "w") @@
  ("A" :> "a") @@ ("B" :> "b") @@ ("K" :> "k") @@ ("G" :> "g") @@
  ("R" :> "r") @@ ("P" :> "p") @@ ("I" :> "i") @@ ("H" :> "h")
Lower(c) == IF c \in DOMAIN LowerMap THEN LowerMap[c] ELSE c

(***************************************************************************)
(* Regular expressions: <<"chr", S>> one character whose folded form is in *)
(* S; <<"cat", rs>>; <<"alt", rs>> (leftmost alternative first);           *)
(* <<"star", r>> and <<"opt", r>> (greedy); <<"grp", n, r>> (capture n).   *)
(* M returns every way r matches s from position i, best first, each as    *)
(* <<end position, captures>>.                                             *)
(***************************************************************************)
Chr(S) == <<"chr", S>>
Cat(rs) == <<"cat", rs>>
Alt(rs) == <<"alt", rs>>
Star(r) == <<"star", r>>
Opt(r) == <<"opt", r>>
Grp(n, r) == <<"grp", n, r>>
Plus(r) == Cat(<<r, Star(r)>>)
Lit(w) == Cat([k \in 1..Len(w) |-> Chr({w[k]})])

RECURSIVE M(_, _, _, _), MCat(_, _, _, _, _), BindCat(_, _, _, _),
          MAlt(_, _, _, _, _), BindStar(_, _, _, _), CloseGrp(_, _, _)

M(r, s, i, caps) ==
  CASE r[1] = "chr" ->
         IF i <= Len(s) /\ Lower(s[i]) \in r[2] THEN << <<i + 1, caps>> >> ELSE << >>
    [] r[1] = "cat" -> MCat(r[2], 1, s, i, caps)
    [] r[1] = "alt" -> MAlt(r[2], 1, s, i, caps)
    [] r[1] = "star" -> BindStar(M(r[2], s, i, caps), r, s, i) \o << <<i, caps>> >>
    [] r[1] = "opt" -> M(r[2], s, i, caps) \o << <<i, caps>> >>
    [] r[1] = "grp" -> CloseGrp(M(r[3], s, i, caps), r[2], i)

MCat(rs, k, s, i, caps) ==
  IF k > Len(rs) THEN << <<i, caps>> >>
  ELSE BindCat(M(rs[k], s, i, caps), rs, k + 1, s)

BindCat(found, rs, k, s) ==
  IF Len(found) = 0 THEN << >>
  ELSE MCat(rs, k, s, found[1][1], found[1][2]) \o BindCat(Tail(found), rs, k, s)

MAlt(rs, k, s, i, caps) ==
  IF k > Len(rs) THEN << >>
  ELSE M(rs[k], s, i, caps) \o MAlt(rs, k + 1, s, i, caps)

BindStar(found, r, s, i) ==
  IF Len(found) = 0 THEN << >>
  ELSE (IF found[1][1] > i THEN M(r, s, found[1][1], found[1][2]) ELSE << >>)
       \o BindStar(Tail(found), r, s, i)

CloseGrp(found, n, i) ==
  IF Len(found) = 0 THEN << >>
  ELSE << <<found[1][1], [found[1][2] EXCEPT ![n] = <<i, found[1][1]>>]>> >>
       \o CloseGrp(Tail(found), n, i)

NoCaps == [n \in 1..3 |-> << >>]

RECURSIVE SearchFrom(_, _, _)
SearchFrom(r, s, st) ==
  IF st > Len(s) + 1 THEN << >>
  ELSE LET found == M(r, s, st, NoCaps)
       IN IF Len(found) > 0 THEN <<st, found[1][1], found[1][2]>>
          ELSE SearchFrom(r, s, st + 1)

\* re.search: << >> for no match, else <<start, end, captures>>
Search(r, s) == SearchFrom(r, s, 1)
Matched(m) == Len(m) > 0
\* m.groups()[n]: the captured text, << >> for a group that took no part
Group(m, s, n) ==
  IF Len(m[3][n]) = 0 THEN << >> ELSE SubSeq(s, m[3][n][1], m[3][n][2] - 1)

(***************************************************************************)
(* Text helpers: str.strip(), str.startswith().                            *)
(***************************************************************************)
RECURSIVE LStrip(_), RStrip(_)
LStrip(s) == IF Len(s) > 0 /\ s[1] \in SpaceChars THEN LStrip(Tail(s)) ELSE s
RStrip(s) ==
  IF Len(s) > 0 /\ s[Len(s)] \in SpaceChars THEN RStrip(SubSeq(s, 1, Len(s) - 1)) ELSE s
Strip(s) == LStrip(RStrip(s))
StartsWith(s, p) == Len(s) >= Len(p) /\ SubSeq(s, 1, Len(p)) = p

(***************************************************************************)
(* The set grammars of StrongParser (all compiled with re.IGNORECASE).     *)
(***************************************************************************)
D == Chr(DigitChars)
WS == Chr(SpaceChars)
SerieSet == <<Lit(<<"s", EAcute, "r", "i", "e">>), Lit(<<"s", "e", "t">>)>>
Reps == Cat(<<Lit(<<"r", "e", "p">>), Opt(Chr({"s"}))>>)

\* (?:Série|Set|W:)\s*(\d+)?:?\s*(?:\+)?(\d+(?:\.\d+)?)\s*kg\s*×\s*(\d+)\s*reps?
SET_PATTERN ==
  Cat(<<Alt(SerieSet \o <<Lit(<<"w", ":">>)>>), Star(WS), Opt(Grp(1, Plus(D))),
        Opt(Chr({":"})), Star(WS), Opt(Chr({"+"})),
        Grp(2, Cat(<<Plus(D), Opt(Cat(<<Chr({"."}), Plus(D)>>))>>)),
        Star(WS), Lit(<<"k", "g">>), Star(WS), Chr({Times}), Star(WS),
        Grp(3, Plus(D)), Star(WS), Reps>>)

\* (?:Série|Set)\s*(\d+):?\s*(\d+)\s*reps?
BODYWEIGHT_PATTERN ==
  Cat(<<Alt(SerieSet), Star(WS), Grp(1, Plus(D)), Opt(Chr({":"})), Star(WS),
        Grp(2, Plus(D)), Star(WS), Reps>>)

\* (?:Série|Set)\s*(\d+):?\s*([\d:]+)
DURATION_PATTERN ==
  Cat(<<Alt(SerieSet), Star(WS), Grp(1, Plus(D)), Opt(Chr({":"})), Star(WS),
        Grp(2, Plus(Chr(DigitChars \cup {":"})))>>)

(***************************************************************************)
(* int() and float() of a matched token.  int() raises ValueError on a run *)
(* of digits over the interpreter's limit; a weight is kept in thousandths *)
(* of a kilogram.                                                          *)
(***************************************************************************)
IntRaises(ds) == \E k \in 1..Len(ds) : ds[k] = LongDigits

RECURSIVE IntOf(_)
IntOf(ds) ==
  IF Len(ds) = 0 THEN 0
  ELSE 10 * IntOf(SubSeq(ds, 1, Len(ds) - 1)) + DigitVal[ds[Len(ds)]]

RECURSIVE Pow10(_)
Pow10(n) == IF n = 0 THEN 1 ELSE 10 * Pow10(n - 1)

DotAt(ws) == IF \E k \in 1..Len(ws) : ws[k] = "."
             THEN CHOOSE k \in 1..Len(ws) : ws[k] = "." ELSE Len(ws) + 1
\* the floats that are no numbers of thousandths: inf and nan
Infinity == 0 - 2
NaN == 0 - 3
FloatOf(ws) ==
  LET dot == DotAt(ws)
      frac == SubSeq(ws, dot + 1, Len(ws))
  IN IF \E k \in 1..(dot - 1) : ws[k] \in {LongDigits, HugeDigits}
     THEN Infinity
     ELSE IntOf(SubSeq(ws, 1, dot - 1)) * 1000 + (IntOf(frac) * 1000) \div Pow10(Len(frac))

(***************************************************************************)
(* The domain model.  None (an absent weight or reps) is -1; an absent     *)
(* duration is the empty text; an Optional[Exercise] is a sequence of at   *)
(* most one exercise.                                                      *)
(***************************************************************************)
None == 0 - 1
NoExercise == << >>

WorkoutSet(n, w, r, d, wu) ==
  [set_number |-> n, weight |-> w, reps |-> r, duration |-> d, is_warmup |-> wu]
Exercise(name) == [name |-> name, sets |-> << >>]
\* a slip of add_set: the new set put before the others
add_set_first(ex, ws) == [ex EXCEPT !.sets = <<ws>> \o @]
\* a slip of add_set: the new set replaces the list
add_set_replacing(ex, ws) == [ex EXCEPT !.sets = <<ws>>]
add_set(ex, ws) == [ex EXCEPT !.sets = Append(@, ws)]

RECURSIVE SumSets(_)
SumSets(exs) == IF Len(exs) = 0 THEN 0 ELSE Len(exs[1].sets) + SumSets(Tail(exs))
get_total_sets(exs) == SumSets(exs)

(***************************************************************************)
(* One pass of the loop of parse_workout over a line.                      *)
(***************************************************************************)
\* a slip of the test: only the empty line skipped
SkipLineBlankOnly(line) == Len(line) = 0
SkipLine(line) == Len(line) = 0 \/ StartsWith(line, <<"h", "t", "t", "p">>)

\* a slip of the chain: the duration grammar tested first
LineClassDurationFirst(line) ==
  IF Matched(Search(DURATION_PATTERN, line)) THEN "duration"
  ELSE IF Matched(Search(SET_PATTERN, line)) THEN "weighted"
  ELSE IF Matched(Search(BODYWEIGHT_PATTERN, line)) THEN "bodyweight"
  ELSE "name"

\* the branch of the if/elif chain a line takes
LineClass(line) ==
  IF Matched(Search(SET_PATTERN, line)) THEN "weighted"
  ELSE IF Matched(Search(BODYWEIGHT_PATTERN, line)) THEN "bodyweight"
  ELSE IF Matched(Search(DURATION_PATTERN, line)) THEN "duration"
  ELSE "name"

SetNumber(set_num_str, ex) ==
  IF Len(set_num_str) > 0 THEN IntOf(set_num_str) ELSE Len(ex.sets) + 1

IsWarmup(line) == StartsWith(Strip(line), <<"W", ":">>)

\* the texts int() is applied to on a set line
IntArgs(line, cls) ==
  CASE cls = "weighted" ->
         LET m == Search(SET_PATTERN, line) IN {Group(m, line, 1), Group(m, line, 3)}
    [] cls = "bodyweight" ->
         LET m == Search(BODYWEIGHT_PATTERN, line) IN {Group(m, line, 1), Group(m, line, 2)}
    [] cls = "duration" ->
         LET m == Search(DURATION_PATTERN, line) IN {Group(m, line, 1)}
    [] OTHER -> {}
SetRaises(line, cls) == \E a \in IntArgs(line, cls) : IntRaises(a)

MakeSet(line, cls, ex) ==
  CASE cls = "weighted" ->
         LET m == Search(SET_PATTERN, line)
         IN WorkoutSet(SetNumber(Group(m, line, 1), ex), FloatOf(Group(m, line, 2)),
                       IntOf(Group(m, line, 3)), << >>, IsWarmup(line))
    [] cls = "bodyweight" ->
         LET m == Search(BODYWEIGHT_PATTERN, line)
         IN WorkoutSet(SetNumber(Group(m, line, 1), ex), None,
                       IntOf(Group(m, line, 2)), << >>, FALSE)
    [] cls = "duration" ->
         LET m == Search(DURATION_PATTERN, line)
         IN WorkoutSet(SetNumber(Group(m, line, 1), ex), None, None,
                       Group(m, line, 2), FALSE)

\* `if current_exercise:` on an exercise-name line: an Exercise object is
\* truthy whatever its sets
ClosesOnName(cur) == cur # NoExercise

\* the loop body: the exercises, the open exercise and whether it raised
LoopBody(raw, exs, cur) ==
  LET line == Strip(raw)
      cls == LineClass(line)
      same == [exercises |-> exs, current_exercise |-> cur, raised |-> FALSE]
  IN IF SkipLine(line) THEN same
     ELSE IF cls # "name"
          THEN IF cur = NoExercise THEN same
               ELSE IF SetRaises(line, cls) THEN [same EXCEPT !.raised = TRUE]
               ELSE [same EXCEPT
                       !.current_exercise = <<add_set(cur[1], MakeSet(line, cls, cur[1]))>>]
          ELSE [exercises |-> IF ClosesOnName(cur) THEN Append(exs, cur[1]) ELSE exs,
                current_exercise |-> <<Exercise(line)>>,
                raised |-> FALSE]

(***************************************************************************)
(* parse_workout before and after the loop.                                *)
(***************************************************************************)
IsBlank(raw) == Len(Strip(raw)) = 0

\* text.strip().split('\n'), the text given as its lines: strip() removes the
\* blank lines and the white space at both ends; ''.split('\n') is ['']
RECURSIVE DropBlankHead(_), DropBlankTail(_)
DropBlankHead(ls) ==
  IF Len(ls) > 0 /\ IsBlank(ls[1]) THEN DropBlankHead(Tail(ls)) ELSE ls
DropBlankTail(ls) ==
  IF Len(ls) > 0 /\ IsBlank(ls[Len(ls)]) THEN DropBlankTail(SubSeq(ls, 1, Len(ls) - 1))
  ELSE ls
StripSplit(t) ==
  LET ls == DropBlankTail(DropBlankHead(t))
  IN IF Len(ls) = 0 THEN << << >> >>
     ELSE [k \in 1..Len(ls) |->
             IF k = 1 /\ k = Len(ls) THEN Strip(ls[k])
             ELSE IF k = 1 THEN LStrip(ls[k])
             ELSE IF k = Len(ls) THEN RStrip(ls[k])
             ELSE ls[k]]

DefaultName == <<"W", "o", "r", "k", "o", "u", "t">>
WorkoutName(ls) == IF Len(ls) > 0 THEN Strip(ls[1]) ELSE DefaultName

\* The date block.  dp is what dateparser.parse does on the cleaned date line
\* ("date", "None" or the exception it raises), du what dateutil's parse does
\* ("date" or the exception it raises).  The inner handler catches ValueError
\* and TypeError only.
DateCaught == {"ValueError", "TypeError"}
ResolveDate(ls, dp, du) ==
  IF Len(ls) <= 1 THEN [date |-> "now", raised |-> "none"]
  ELSE IF dp = "date" THEN [date |-> "parsed", raised |-> "none"]
  ELSE LET thrown == IF dp = "None" THEN du ELSE dp
       IN IF thrown = "date" THEN [date |-> "parsed", raised |-> "none"]
          ELSE IF thrown \in DateCaught THEN [date |-> "now", raised |-> "none"]
          ELSE [date |-> "now", raised |-> thrown]

\* `if current_exercise and current_exercise.sets:` after the loop
FlushLast(exs, cur) ==
  IF cur # NoExercise /\ Len(cur[1].sets) > 0 THEN Append(exs, cur[1]) ELSE exs

\* a slip of the return: the workout returned whatever its exercises
ReturnsWorkoutAlways(exs) == "Workout"
\* `if not workout.exercises: return None`, else the workout
ReturnValue(exs) == IF Len(exs) = 0 THEN "None" ELSE "Workout"

\* a slip of the handler: the exception raised again
HandlerReraises(e) == "raised"
\* `except Exception: ... return None`
HandlerValue(e) == "None"

(***************************************************************************)
(* The date line: re.sub takes every match of the weekday pattern out.     *)
(***************************************************************************)
\* (segunda|...|sunday)-feira,?\s*   (re.IGNORECASE)
WEEKDAY_PATTERN ==
  Cat(<<Grp(1, Alt(<<Lit(<<"s", "e", "g", "u", "n", "d", "a">>), Lit(<<"t", "e", "r", CCedil, "a">>), Lit(<<"q", "u", "a", "r", "t", "a">>),
                     Lit(<<"q", "u", "i", "n", "t", "a">>), Lit(<<"s", "e", "x", "t", "a">>), Lit(<<"s", AAcute, "b", "a", "d", "o">>),
                     Lit(<<"d", "o", "m", "i", "n", "g", "o">>), Lit(<<"m", "o", "n", "d", "a", "y">>), Lit(<<"t", "u", "e", "s", "d", "a", "y">>),
                     Lit(<<"w", "e", "d", "n", "e", "s", "d", "a", "y">>), Lit(<<"t", "h", "u", "r", "s", "d", "a", "y">>), Lit(<<"f", "r", "i", "d", "a", "y">>),
                     Lit(<<"s", "a", "t", "u", "r", "d", "a", "y">>), Lit(<<"s", "u", "n", "d", "a", "y">>)>>)),
        Lit(<<"-", "f", "e", "i", "r", "a">>), Opt(Chr({","})), Star(WS)>>)

\* re.sub(r, '', s) from position st on: the text between the matches
RECURSIVE SubFrom(_, _, _)
SubFrom(r, s, st) ==
  LET m == SearchFrom(r, s, st)
  IN IF ~Matched(m) THEN SubSeq(s, st, Len(s))
     ELSE SubSeq(s, st, m[1] - 1) \o SubFrom(r, s, m[2])

CleanDateLine(date_line) == SubFrom(WEEKDAY_PATTERN, date_line, 1)

(***************************************************************************)
(* is_strong_workout: two searches and a substring test on the whole text. *)
(***************************************************************************)
\* the text as one string, its lines joined by the newline split took out
RECURSIVE Joined(_)
Joined(t) ==
  IF Len(t) = 0 THEN << >>
  ELSE IF Len(t) = 1 THEN t[1]
  ELSE t[1] \o <<"\n">> \o Joined(Tail(t))

LowerText(s) == [k \in 1..Len(s) |-> Lower(s[k])]
\* `w in s`
Contains(s, w) == \E k \in 1..(Len(s) - Len(w) + 1) : SubSeq(s, k, k + Len(w) - 1) = w

\* (?:Série|Set)\s*\d+:
SET_MARKER == Cat(<<Alt(SerieSet), Star(WS), Plus(D), Chr({":"})>>)
\* \d+\s*kg\s*×\s*\d+\s*reps?
WEIGHT_REPS ==
  Cat(<<Plus(D), Star(WS), Lit(<<"k", "g">>), Star(WS), Chr({Times}), Star(WS), Plus(D),
        Star(WS), Reps>>)
StrongLink == <<"s", "t", "r", "o", "n", "g", ".", "a", "p", "p">>

\* a slip of the gate: the link looked for in the text as written
is_strong_workout_cased(t) ==
  LET s == Joined(t)
  IN \/ Matched(Search(SET_MARKER, s))
     \/ Matched(Search(WEIGHT_REPS, s))
     \/ Contains(s, StrongLink)

is_strong_workout(t) ==
  LET s == Joined(t)
      has_set_marker == Matched(Search(SET_MARKER, s))
      has_weight_reps == Matched(Search(WEIGHT_REPS, s))
      has_link == Contains(LowerText(s), StrongLink)
  IN has_set_marker \/ has_weight_reps \/ has_link

(***************************************************************************)
(* The derived figures of a Workout.  A volume is in thousandths of a kg.  *)
(***************************************************************************)
\* `x or 0`: None and 0 both give 0
OrZero(x) == IF x = None THEN 0 ELSE x

\* weight * reps, the weight a float >= 0 and the reps an int >= 0
FloatTimes(w, n) ==
  IF w = Infinity THEN (IF n = 0 THEN NaN ELSE Infinity) ELSE w * n
\* the sum of two floats >= 0
FloatPlus(a, b) ==
  IF a = NaN \/ b = NaN THEN NaN
  ELSE IF a = Infinity \/ b = Infinity THEN Infinity
  ELSE a + b
\* `x > 0` on a float: false on nan
Positive(x) == x = Infinity \/ x > 0

RECURSIVE SumVolume(_)
SumVolume(sets) ==
  IF Len(sets) = 0 THEN 0
  ELSE FloatPlus(SumVolume(SubSeq(sets, 1, Len(sets) - 1)),
                 FloatTimes(OrZero(sets[Len(sets)].weight), OrZero(sets[Len(sets)].reps)))
Exercise_get_total_volume(ex) == SumVolume(ex.sets)

RECURSIVE get_total_volume(_)
get_total_volume(exs) ==
  IF Len(exs) = 0 THEN 0
  ELSE FloatPlus(get_total_volume(SubSeq(exs, 1, Len(exs) - 1)),
                 Exercise_get_total_volume(exs[Len(exs)]))

\* a slip of the estimate: the two rates exchanged
estimate_duration_swapped(exs) == (get_total_sets(exs) * 60) + (Len(exs) * 120)
estimate_duration(exs) ==
  LET total_sets == get_total_sets(exs)
      num_exercises == Len(exs)
  IN (total_sets * 120) + (num_exercises * 60)

(***************************************************************************)
(* format_workout_description.  Numbers are written out as Python's format *)
(* does: str(int), repr(float), and '{:,.0f}' for the volume.              *)
(***************************************************************************)
DigitChar == <<"0", "1", "2", "3", "4", "5", "6", "7", "8", "9">>

\* str(n) of an int n >= 0
RECURSIVE IntStr(_)
IntStr(n) == IF n < 10 THEN <<DigitChar[n + 1]>> ELSE IntStr(n \div 10) \o <<DigitChar[(n % 10) + 1]>>

RECURSIVE DropZeros(_)
DropZeros(ds) ==
  IF Len(ds) > 1 /\ ds[Len(ds)] = "0" THEN DropZeros(SubSeq(ds, 1, Len(ds) - 1)) ELSE ds
\* repr of a float given in thousandths: 5000 is "5.0", 40500 is "40.5"
FloatStr(w) ==
  LET frac == w % 1000
      three == <<DigitChar[(frac \div 100) + 1], DigitChar[((frac \div 10) % 10) + 1],
                 DigitChar[(frac % 10) + 1]>>
  IN IF w = Infinity THEN <<"i", "n", "f">>
     ELSE IntStr(w \div 1000) \o <<".">> \o DropZeros(three)

\* round() of '.0f': to the nearest integer, a tie to the even one
RoundHalfEven(v) ==
  LET q == v \div 1000
      r == v % 1000
  IN IF r < 500 THEN q
     ELSE IF r > 500 THEN q + 1
     ELSE IF q % 2 = 0 THEN q ELSE q + 1
\* the ',' option: a comma before every group of three digits
RECURSIVE Grouped(_)
Grouped(ds) ==
  IF Len(ds) <= 3 THEN ds
  ELSE Grouped(SubSeq(ds, 1, Len(ds) - 3)) \o <<",">> \o SubSeq(ds, Len(ds) - 2, Len(ds))
VolumeStr(v) ==
  IF v = Infinity THEN <<"i", "n", "f">> ELSE Grouped(IntStr(RoundHalfEven(v)))

\* sep.join(parts)
RECURSIVE Join(_, _)
Join(parts, sep) ==
  IF Len(parts) = 0 THEN << >>
  ELSE IF Len(parts) = 1 THEN parts[1]
  ELSE parts[1] \o sep \o Join(Tail(parts), sep)

\* truthiness of an Optional number: None and 0 are falsy
Truthy(x) == x # None /\ x # 0

SetParts(ws) ==
  (IF ws.is_warmup THEN <<<<"W", "a", "r", "m", "u", "p", ":">>>> ELSE << >>)
  \o (IF Truthy(ws.weight) THEN <<FloatStr(ws.weight) \o <<" ", "k", "g">>>> ELSE << >>)
  \o (IF Truthy(ws.reps) THEN <<IntStr(ws.reps) \o <<" ", "r", "e", "p", "s">>>> ELSE << >>)

\* a slip of the set line: no fallback when there is nothing to write
SetLineNoFallback(ws) ==
  <<" ", " ", "S", "e", "t", " ">> \o IntStr(ws.set_number) \o <<":", " ">> \o ws.duration
  \o Join(SetParts(ws), <<" ", Times, " ">>)
\* the line of one set
SetLine(ws) ==
  IF Len(ws.duration) > 0
  THEN <<" ", " ", "S", "e", "t", " ">> \o IntStr(ws.set_number) \o <<":", " ">> \o ws.duration
  ELSE LET parts == SetParts(ws)
           set_desc == IF Len(parts) > 0 THEN Join(parts, <<" ", Times, " ">>) ELSE <<"B", "o", "d", "y", "w", "e", "i", "g", "h", "t">>
       IN <<" ", " ", "S", "e", "t", " ">> \o IntStr(ws.set_number) \o <<":", " ">> \o set_desc

ExerciseLines(ex) ==
  <<<<"\n", "*", "*">> \o ex.name \o <<"*", "*">>>> \o [k \in 1..Len(ex.sets) |-> SetLine(ex.sets[k])]

RECURSIVE AllExerciseLines(_)
AllExerciseLines(exs) ==
  IF Len(exs) = 0 THEN << >> ELSE ExerciseLines(exs[1]) \o AllExerciseLines(Tail(exs))

SummaryLines(exs) ==
  <<<<"\n", "*", "*", "S", "u", "m", "m", "a", "r", "y", "*", "*">>,
    <<"T", "o", "t", "a", "l", " ", "e", "x", "e", "r", "c", "i", "s", "e", "s", ":", " ">> \o IntStr(Len(exs)),
    <<"T", "o", "t", "a", "l", " ", "s", "e", "t", "s", ":", " ">> \o IntStr(get_total_sets(exs))>>
  \o (IF Positive(get_total_volume(exs))
      THEN <<<<"T", "o", "t", "a", "l", " ", "v", "o", "l", "u", "m", "e", ":", " ">> \o VolumeStr(get_total_volume(exs)) \o <<" ", "k", "g">>>>
      ELSE << >>)

format_workout_description(exs) ==
  Join(AllExerciseLines(exs) \o SummaryLines(exs), <<"\n">>)

(***************************************************************************)
(* create_workout_activity: the figures of the payload and the outcome of  *)
(* the request.                                                            *)
(***************************************************************************)
Max(a, b) == IF a >= b THEN a ELSE b
\* max(int(total_volume / 1000), 10) if total_volume > 0 else 50
EstimatedLoad(volume) ==
  IF volume > 0 THEN Max((volume \div 1000) \div 1000, 10) ELSE 50
\* int() of an infinite float raises OverflowError
EstimatedLoadRaises(volume) == volume = Infinity

PostOutcomes == {"ok", "HTTPError", "RequestException", "Exception"}
\* a slip of the client: no handler for what is neither of the two named
\* exceptions
CreateResultUncaught(outcome) ==
  CASE outcome = "ok" -> "dict"
    [] outcome \in {"HTTPError", "RequestException"} -> "None"
    [] OTHER -> "raised"
\* the three handlers return None; a response that passed raise_for_status
\* and decoded is returned
CreateResult(outcome) == IF outcome = "ok" THEN "dict" ELSE "None"

(***************************************************************************)
(* The state of one call of parse_workout.                                 *)
(***************************************************************************)
VARIABLES
  text,               \* the argument, as its lines
  dateparser_result,  \* what dateparser.parse does on the date line
  dateutil_result,    \* what dateutil's parse does on the date line
  pc,                 \* where the call is
  lines,              \* text.strip().split('\n')
  i,                  \* the line the loop is at (lines[2:] starts at 3)
  workout_name,
  workout_date,       \* "now" or "parsed"
  exercises,          \* workout.exercises
  current_exercise,
  exc,                \* the exception the outer handler caught
  result,             \* "pending", "None", "Workout" or "raised"
  date_line_clean,    \* the date line after re.sub took the weekday names out
  is_strong,          \* what is_strong_workout(text) returned
  description,        \* what format_workout_description(workout) returned
  format_calls,       \* calls of format_workout_description on the workout
  post_outcome,       \* what session.post / raise_for_status / json do
  total_volume,       \* create_workout_activity: in thousandths of a kg
  estimated_load,
  duration_seconds,
  created,            \* what create_workout_activity returned
  other,              \* the locals of a second, concurrent call of parse_workout
  ALLOWED_USERS,      \* telegram_bot.py: the whitelist of user ids
  user_id,            \* update.effective_user.id
  update,             \* what arrived: "message", "start", "help" or "test"
  handler_pc,         \* where the handler of the update is
  replies,            \* the reply_text calls of the handler, in order
  connection_outcome, \* what session.get / raise_for_status do in test_connection
  connected,          \* what test_connection returned
  TELEGRAM_BOT_TOKEN, \* config.py: the three settings, as os.getenv gave them
  INTERVALS_API_KEY,
  INTERVALS_ATHLETE_ID,
  main_pc,            \* where main() is
  bot,                \* "none", or "constructed" once WorkoutBot(...) returned
  run_outcome,        \* what WorkoutBot(...) and bot.run() do
  polling,            \* "yes" once run_polling was entered
  exit_status         \* the status the process left with, or None

vars == <<text, dateparser_result, dateutil_result, pc, lines, i, workout_name,
          workout_date, exercises, current_exercise, exc, result, date_line_clean,
          is_strong, description, format_calls, post_outcome, total_volume,
          estimated_load, duration_seconds, created, other, ALLOWED_USERS, user_id,
          update, handler_pc, replies, connection_outcome, connected,
          TELEGRAM_BOT_TOKEN, INTERVALS_API_KEY, INTERVALS_ATHLETE_ID, main_pc, bot,
          run_outcome, polling, exit_status>>

\* the bot's handlers and the client's connection test
bot_state == <<ALLOWED_USERS, user_id, update, handler_pc, replies, connection_outcome,
               connected>>

\* the settings and main()
main_state == <<TELEGRAM_BOT_TOKEN, INTERVALS_API_KEY, INTERVALS_ATHLETE_ID, main_pc, bot,
                run_outcome, polling, exit_status>>

input == <<text, dateparser_result, dateutil_result>>

\* what a call of parse_workout cannot reach: its caller's variables and the
\* locals of another call
outside == <<is_strong, description, format_calls, post_outcome, total_volume,
             estimated_load, duration_seconds, created, other, bot_state, main_state>>

Split ==
  /\ pc = "start"
  /\ lines' = StripSplit(text)
  /\ workout_name' = WorkoutName(lines')
  /\ workout_date' = "now"
  /\ pc' = "date"
  /\ UNCHANGED <<input, i, exercises, current_exercise, exc, result, date_line_clean,
                 outside>>

Date ==
  /\ pc = "date"
  /\ \E r \in {ResolveDate(lines, dateparser_result, dateutil_result)} :
       /\ workout_date' = r.date
       /\ exc' = r.raised
       /\ pc' = IF r.raised = "none" THEN "loop" ELSE "except"
  /\ exercises' = << >>
  /\ current_exercise' = NoExercise
  /\ i' = 3
  /\ date_line_clean' =
       IF Len(lines) > 1 THEN CleanDateLine(Strip(lines[2])) ELSE date_line_clean
  /\ UNCHANGED <<input, lines, workout_name, result, outside>>

Loop ==
  /\ pc = "loop"
  /\ i <= Len(lines)
  /\ \E r \in {LoopBody(lines[i], exercises, current_exercise)} :
       /\ exercises' = r.exercises
       /\ current_exercise' = r.current_exercise
       /\ exc' = IF r.raised THEN "ValueError" ELSE exc
       /\ pc' = IF r.raised THEN "except" ELSE "loop"
  /\ i' = i + 1
  /\ UNCHANGED <<input, lines, workout_name, workout_date, result, date_line_clean,
                 outside>>

Flush ==
  /\ pc = "loop"
  /\ i > Len(lines)
  /\ exercises' = FlushLast(exercises, current_exercise)
  /\ pc' = "return"
  /\ UNCHANGED <<input, lines, i, workout_name, workout_date, current_exercise, exc,
                 result, date_line_clean, outside>>

Return ==
  /\ pc = "return"
  /\ result' = ReturnValue(exercises)
  /\ pc' = "done"
  /\ UNCHANGED <<input, lines, i, workout_name, workout_date, exercises,
                 current_exercise, exc, date_line_clean, outside>>

Except ==
  /\ pc = "except"
  /\ result' = HandlerValue(exc)
  /\ pc' = "done"
  /\ UNCHANGED <<input, lines, i, workout_name, workout_date, exercises,
                 current_exercise, exc, date_line_clean, outside>>

Next == Split \/ Date \/ Loop \/ Flush \/ Return \/ Except

(***************************************************************************)
(* The callers of the parser: the gate, the report and the activity.       *)
(***************************************************************************)
Undefined == <<"undefined">>

parse_state == <<input, pc, lines, i, workout_name, workout_date, exercises,
                 current_exercise, exc, result, date_line_clean>>

\* is_strong_workout(text)
IsStrongWorkout ==
  /\ is_strong = "pending"
  /\ is_strong' = IF is_strong_workout(text) THEN "True" ELSE "False"
  /\ UNCHANGED <<parse_state, description, format_calls, post_outcome, total_volume,
                 estimated_load, duration_seconds, created, other, bot_state,
                 main_state>>

GateNext == IsStrongWorkout

\* a slip of the report: the sets of the first exercise consumed while written
FormatConsuming ==
  /\ pc = "done"
  /\ result = "Workout"
  /\ format_calls < MaxCalls
  /\ description' = format_workout_description(exercises)
  /\ format_calls' = format_calls + 1
  /\ exercises' = [exercises EXCEPT ![1].sets = << >>]
  /\ UNCHANGED <<input, pc, lines, i, workout_name, workout_date, current_exercise, exc,
                 result, date_line_clean, is_strong, post_outcome, total_volume,
                 estimated_load, duration_seconds, created, other, bot_state,
                 main_state>>

\* format_workout_description(workout), on the workout parse_workout returned
Format ==
  /\ pc = "done"
  /\ result = "Workout"
  /\ format_calls < MaxCalls
  /\ description' = format_workout_description(exercises)
  /\ format_calls' = format_calls + 1
  /\ UNCHANGED <<parse_state, is_strong, post_outcome, total_volume, estimated_load,
                 duration_seconds, created, other, bot_state, main_state>>

\* create_workout_activity(workout, description)
CreateWorkoutActivity ==
  /\ format_calls > 0
  /\ created = "pending"
  /\ total_volume' = get_total_volume(exercises)
  /\ IF EstimatedLoadRaises(total_volume')
     THEN /\ created' = "raised"
          /\ UNCHANGED <<estimated_load, duration_seconds>>
     ELSE /\ estimated_load' = EstimatedLoad(total_volume')
          /\ duration_seconds' = estimate_duration(exercises)
          /\ created' = CreateResult(post_outcome)
  /\ UNCHANGED <<parse_state, is_strong, description, format_calls, post_outcome, other,
                 bot_state, main_state>>

ReportNext == Next \/ Format \/ CreateWorkoutActivity

(***************************************************************************)
(* A second call of parse_workout, running at the same time.  Its locals   *)
(* are the fields of `other`; a step of it is a step of the code above.    *)
(***************************************************************************)
NoCall == [pc |-> "none"]
Call(t, dp, du) ==
  [text |-> t, dateparser_result |-> dp, dateutil_result |-> du, pc |-> "start",
   lines |-> << >>, i |-> 0, workout_name |-> << >>, workout_date |-> "now",
   exercises |-> << >>, current_exercise |-> NoExercise, exc |-> "none",
   result |-> "pending", date_line_clean |-> Undefined]

\* a slip of the parser: the open exercise kept where every call finds it
ParseStepSharedExercise(s) ==
  CASE s.pc = "start" ->
         [s EXCEPT !.lines = StripSplit(s.text),
                   !.workout_name = WorkoutName(StripSplit(s.text)),
                   !.pc = "date"]
    [] s.pc = "date" ->
         LET r == ResolveDate(s.lines, s.dateparser_result, s.dateutil_result)
         IN [s EXCEPT !.workout_date = r.date, !.exc = r.raised,
                      !.pc = IF r.raised = "none" THEN "loop" ELSE "except",
                      !.i = 3]
    [] s.pc = "loop" /\ s.i <= Len(s.lines) ->
         LET r == LoopBody(s.lines[s.i], s.exercises, current_exercise)
         IN [s EXCEPT !.exercises = r.exercises,
                      !.current_exercise = r.current_exercise,
                      !.exc = IF r.raised THEN "ValueError" ELSE @,
                      !.pc = IF r.raised THEN "except" ELSE "loop",
                      !.i = @ + 1]
    [] s.pc = "loop" /\ s.i > Len(s.lines) ->
         [s EXCEPT !.exercises = FlushLast(@, current_exercise), !.pc = "return"]
    [] s.pc = "return" -> [s EXCEPT !.result = ReturnValue(s.exercises), !.pc = "done"]
    [] s.pc = "except" -> [s EXCEPT !.result = HandlerValue(s.exc), !.pc = "done"]

ParseStep(s) ==
  CASE s.pc = "start" ->
         [s EXCEPT !.lines = StripSplit(s.text),
                   !.workout_name = WorkoutName(StripSplit(s.text)),
                   !.workout_date = "now",
                   !.pc = "date"]
    [] s.pc = "date" ->
         LET r == ResolveDate(s.lines, s.dateparser_result, s.dateutil_result)
         IN [s EXCEPT !.workout_date = r.date, !.exc = r.raised,
                      !.pc = IF r.raised = "none" THEN "loop" ELSE "except",
                      !.exercises = << >>,
                      !.current_exercise = NoExercise,
                      !.i = 3,
                      !.date_line_clean =
                        IF Len(s.lines) > 1 THEN CleanDateLine(Strip(s.lines[2])) ELSE @]
    [] s.pc = "loop" /\ s.i <= Len(s.lines) ->
         LET r == LoopBody(s.lines[s.i], s.exercises, s.current_exercise)
         IN [s EXCEPT !.exercises = r.exercises,
                      !.current_exercise = r.current_exercise,
                      !.exc = IF r.raised THEN "ValueError" ELSE @,
                      !.pc = IF r.raised THEN "except" ELSE "loop",
                      !.i = @ + 1]
    [] s.pc = "loop" /\ s.i > Len(s.lines) ->
         [s EXCEPT !.exercises = FlushLast(@, s.current_exercise), !.pc = "return"]
    [] s.pc = "return" -> [s EXCEPT !.result = ReturnValue(s.exercises), !.pc = "done"]
    [] s.pc = "except" -> [s EXCEPT !.result = HandlerValue(s.exc), !.pc = "done"]

OtherStep ==
  /\ other.pc \notin {"none", "done"}
  /\ other' = ParseStep(other)
  /\ UNCHANGED <<parse_state, is_strong, description, format_calls, post_outcome,
                 total_volume, estimated_load, duration_seconds, created, bot_state,
                 main_state>>

TwoCallNext == Next \/ OtherStep

(***************************************************************************)
(* The texts.                                                              *)
(***************************************************************************)
BlankLine == << >>
LinkLine == <<"h", "t", "t", "p", ":", "a">>
NameA == <<"A">>
NameB == <<"B">>
DateText == <<"1", "2", "/", "0", "3">>
\* "Set 1: 5 kg × 8 reps"
WeightedLine ==
  <<"S", "e", "t", " ", "1", ":", " ", "5", " ", "k", "g", " ", Times, " ", "8", " ",
    "r", "e", "p", "s">>
\* "Set 1: 8 reps"
BodyweightLine == <<"S", "e", "t", " ", "1", ":", " ", "8", " ", "r", "e", "p", "s">>
\* "Set 1: 7:00"
DurationLine == <<"S", "e", "t", " ", "1", ":", " ", "7", ":", "0", "0">>
\* "Set 99...9: 8 reps", the index too long for int()
LongIndexLine == <<"S", "e", "t", " ", LongDigits, ":", " ", "8", " ", "r", "e", "p", "s">>

RECURSIVE SeqsUpTo(_, _)
SeqsUpTo(S, n) ==
  IF n = 0 THEN {<< >>}
  ELSE LET shorter == SeqsUpTo(S, n - 1)
       IN shorter \cup {Append(q, x) : q \in {p \in shorter : Len(p) = n - 1}, x \in S}

\* the name line and the date line: the usual ones, a blank first line (which
\* strip() removes, so that the date line becomes the name), and two set lines
Headers == {<<NameA, DateText>>, <<BlankLine, DateText>>, <<WeightedLine, DurationLine>>}
BodyLines == {BlankLine, LinkLine, NameA, NameB, WeightedLine, LongIndexLine}
Texts ==
  {<< >>} \cup {<<h[1]>> : h \in Headers}
  \cup {h \o b : h \in Headers, b \in SeqsUpTo(BodyLines, MaxBody)}

DateOutcomes ==
  {<<"date", "date">>, <<"ValueError", "date">>, <<"None", "date">>,
   <<"None", "ValueError">>, <<"None", "OverflowError">>}

Fresh ==
  /\ pc = "start"
  /\ lines = << >>
  /\ i = 0
  /\ workout_name = << >>
  /\ workout_date = "now"
  /\ exercises = << >>
  /\ current_exercise = NoExercise
  /\ exc = "none"
  /\ result = "pending"
  /\ date_line_clean = Undefined
  /\ is_strong = "pending"
  /\ description = Undefined
  /\ format_calls = 0
  /\ total_volume = None
  /\ estimated_load = None
  /\ duration_seconds = None
  /\ created = "pending"

\* no update to handle, and main() not entered
Idle ==
  /\ ALLOWED_USERS = {}
  /\ user_id = None
  /\ update = "none"
  /\ handler_pc = "none"
  /\ replies = << >>
  /\ connection_outcome = "ok"
  /\ connected = "pending"
  /\ TELEGRAM_BOT_TOKEN = "None"
  /\ INTERVALS_API_KEY = "None"
  /\ INTERVALS_ATHLETE_ID = "None"
  /\ main_pc = "none"
  /\ bot = "none"
  /\ run_outcome = "runs"
  /\ polling = "no"
  /\ exit_status = None

\* one call, and a request that succeeds
Alone ==
  /\ post_outcome = "ok"
  /\ other = NoCall
  /\ Idle

Init ==
  /\ text \in Texts
  /\ \E o \in DateOutcomes : dateparser_result = o[1] /\ dateutil_result = o[2]
  /\ Fresh
  /\ Alone

Spec == Init /\ [][Next]_vars

(***************************************************************************)
(* Single set lines, written piece by piece, each met after a name line    *)
(* and up to MaxSets set lines (or before any name line).                  *)
(***************************************************************************)
Prefixes == {<< >>, <<"A", " ">>, <<"W", ":", " ">>}
Labels == {<<"S", "e", "t">>, <<"S", EAcute, "r", "i", "e">>, <<"W", ":">>, <<"w", ":">>}
Indexes == {<< >>, <<"1">>}
Colons == {<< >>, <<":">>}
Gaps == {<< >>, <<" ">>}
WeightDigits == UNION {[1..n -> {"4", "0"}] : n \in 1..MaxDigits}
Fractions == {<< >>, <<".", "5">>}
KgReps == <<" ", "k", "g", " ", Times, " ", "8", " ", "r", "e", "p", "s">>
Tails ==
  {w \o f \o KgReps : w \in WeightDigits, f \in Fractions}
  \cup {<<"+", "4">> \o KgReps,
        <<"8", " ", "r", "e", "p", "s">>,
        <<"7", ":", "0", "0">>,
        << >>}
SetLines ==
  {p \o l \o <<" ">> \o n \o c \o g \o t :
     p \in Prefixes, l \in Labels, n \in Indexes, c \in Colons, g \in Gaps, t \in Tails}
  \cup {LongIndexLine}

Contexts ==
  {<< >>} \cup {<<NameA>> \o [k \in 1..n |-> BodyweightLine] : n \in 0..MaxSets}

LineInit ==
  /\ text \in {<<NameA, DateText>> \o c \o <<l>> : c \in Contexts, l \in SetLines}
  /\ dateparser_result = "date"
  /\ dateutil_result = "date"
  /\ Fresh
  /\ Alone

LineSpec == LineInit /\ [][Next]_vars

(***************************************************************************)
(* Vocabulary of the properties: what a line of the text is, read from the *)
(* grammars alone.                                                         *)
(***************************************************************************)
AnyGrammar(line) ==
  \/ Matched(Search(SET_PATTERN, line))
  \/ Matched(Search(BODYWEIGHT_PATTERN, line))
  \/ Matched(Search(DURATION_PATTERN, line))

\* line k is one the loop classifies: after the date line, not blank, no link
Tested(k) == k \in 3..Len(lines) /\ ~SkipLine(Strip(lines[k]))
IsSetAt(k) == Tested(k) /\ AnyGrammar(Strip(lines[k]))
IsNameAt(k) == Tested(k) /\ ~AnyGrammar(Strip(lines[k]))
\* a set line with no exercise-name line before it
OrphanAt(k) == IsSetAt(k) /\ \A j \in 3..(k - 1) : ~IsNameAt(j)
\* an exercise-name line after line k that gets a set line of its own
ExerciseWithSetsAfter(k) ==
  \E j \in (k + 1)..Len(lines) :
    /\ IsNameAt(j)
    /\ \E m \in (j + 1)..Len(lines) :
         IsSetAt(m) /\ \A q \in (j + 1)..(m - 1) : ~IsNameAt(q)

MatchedSetLines == {k \in 3..Len(lines) : IsSetAt(k)}
AcceptedSetLines == {k \in 3..Len(lines) : IsSetAt(k) /\ ~OrphanAt(k)}

DateFailed ==
  /\ Len(lines) > 1
  /\ dateparser_result # "date"
  /\ dateparser_result = "None" => dateutil_result # "date"

\* the loop and what follows it, run on the lines from k on
RECURSIVE LoopFrom(_, _, _)
LoopFrom(k, exs, cur) ==
  IF k > Len(lines) THEN [exercises |-> FlushLast(exs, cur), raised |-> FALSE]
  ELSE LET r == LoopBody(lines[k], exs, cur)
       IN IF r.raised THEN [exercises |-> r.exercises, raised |-> TRUE]
          ELSE LoopFrom(k + 1, r.exercises, r.current_exercise)

(***************************************************************************)
(* C1: a Workout that parse_workout returns has at least one exercise that *)
(* has at least one set.                                                   *)
(***************************************************************************)
C1_ReturnedWorkoutHasASet ==
  (pc = "done" /\ result = "Workout") =>
    /\ \E k \in 1..Len(exercises) : Len(exercises[k].sets) >= 1
    /\ get_total_sets(exercises) >= 1

(***************************************************************************)
(* C2: an exercise is appended to the workout only if it has at least one  *)
(* set, so no exercise of the workout has an empty set list.               *)
(***************************************************************************)
C2_NoExerciseWithoutSets ==
  \A k \in 1..Len(exercises) : Len(exercises[k].sets) >= 1

(***************************************************************************)
(* C3: parse_workout never raises to its caller; a fault that leaves the   *)
(* date block or the loop ends the call with no result.                    *)
(***************************************************************************)
C3_NeverRaises ==
  pc = "done" =>
    /\ result \in {"None", "Workout"}
    /\ exc # "none" => result = "None"

C3_FaultInLoopGivesNone ==
  pc = "done" /\ exc = "ValueError" /\ i > 3 /\ result = "None"

(***************************************************************************)
(* C4: when both date strategies fail, in whatever way, the date is the    *)
(* current instant and the call returns what it returns on the same lines  *)
(* with a date line that resolves.                                         *)
(***************************************************************************)
C4_DateFailureNeverAborts ==
  (pc = "done" /\ DateFailed) =>
    LET r == LoopFrom(3, << >>, NoExercise)
    IN /\ workout_date = "now"
       /\ result = IF r.raised THEN "None" ELSE ReturnValue(r.exercises)
       /\ ~r.raised => exercises = r.exercises

(***************************************************************************)
(* C5: with no internal error, parse_workout returns no Workout exactly    *)
(* when the exercise list at the end of the input is empty.                *)
(***************************************************************************)
C5_NoResultIffNoExercises ==
  (pc = "done" /\ exc = "none") =>
    /\ result \in {"None", "Workout"}
    /\ result = "None" <=> Len(exercises) = 0

C5_NoExercisesFound ==
  pc = "done" /\ exc = "none" /\ Len(lines) > 2 /\ Len(exercises) = 0 /\ result = "None"

(***************************************************************************)
(* C6: a set line met while no exercise is open changes nothing, and the   *)
(* call returns no result unless an exercise with sets follows.            *)
(***************************************************************************)
C6_OrphanStep ==
  /\ (pc = "loop" /\ OrphanAt(i)) =>
       /\ pc' = "loop"
       /\ exercises' = exercises
       /\ current_exercise' = current_exercise
  /\ (pc' = "done" /\ exc' = "none"
      /\ \E k \in 3..Len(lines) : OrphanAt(k) /\ ~ExerciseWithSetsAfter(k)) =>
       result' = "None"

C6_OrphanSetDropped == [][C6_OrphanStep]_vars

(***************************************************************************)
(* C7: for an input with at least one exercise-name line and at least one  *)
(* set line, the returned Workout's get_total_sets() is the number of      *)
(* lines that matched a set grammar.                                       *)
(***************************************************************************)
C7_TotalSetsIsMatchedLines ==
  (/\ pc = "done"
   /\ exc = "none"
   /\ \E k \in 3..Len(lines) : IsNameAt(k)
   /\ MatchedSetLines # {}) =>
    /\ result = "Workout"
    /\ get_total_sets(exercises) = Cardinality(MatchedSetLines)

\* C7, amended: the set lines counted are those after the first
\* exercise-name line; with at least one of them the call returns a Workout
\* whose get_total_sets() is their number.
C7_TotalSetsIsAcceptedLines ==
  (pc = "done" /\ exc = "none" /\ AcceptedSetLines # {}) =>
    /\ result = "Workout"
    /\ get_total_sets(exercises) = Cardinality(AcceptedSetLines)

C7_OrphanNotCounted ==
  /\ pc = "done"
  /\ result = "Workout"
  /\ Cardinality(AcceptedSetLines) >= 1
  /\ Cardinality(AcceptedSetLines) < Cardinality(MatchedSetLines)

(***************************************************************************)
(* Vocabulary of the properties of a single step of the loop: the step     *)
(* that processes lines[i] with an exercise open and does not raise.       *)
(***************************************************************************)
StepOnOpenExercise ==
  /\ pc = "loop"
  /\ i <= Len(lines)
  /\ ~SkipLine(Strip(lines[i]))
  /\ current_exercise # NoExercise
  /\ pc' = "loop"

SetsBefore == current_exercise[1].sets
SetsAfter == current_exercise'[1].sets
NewSet == SetsAfter[Len(SetsAfter)]
OneSetAdded ==
  /\ exercises' = exercises
  /\ Len(current_exercise') = 1
  /\ current_exercise'[1].name = current_exercise[1].name
  /\ Len(SetsAfter) = Len(SetsBefore) + 1
  /\ SubSeq(SetsAfter, 1, Len(SetsBefore)) = SetsBefore

Weight == Cat(<<Plus(D), Opt(Cat(<<Chr({"."}), Plus(D)>>))>>)
KgTimesReps ==
  Cat(<<Star(WS), Lit(<<"k", "g">>), Star(WS), Chr({Times}), Star(WS), Plus(D),
        Star(WS), Reps>>)
\* a line written as "W:", then the weight: W: <weight> kg × <n> reps
WarmupNoIndexForm ==
  Cat(<<Lit(<<"w", ":">>), Star(WS), Opt(Chr({"+"})), Grp(2, Weight), KgTimesReps>>)
\* a line written with an index: <label> <index>: <weight> kg × <n> reps
ExplicitIndexForm ==
  Cat(<<Alt(SerieSet \o <<Lit(<<"w", ":">>)>>), Star(WS), Grp(1, Plus(D)), Chr({":"}),
        Star(WS), Opt(Chr({"+"})), Grp(2, Weight), KgTimesReps>>)
\* how the line reads in a form, from its first character: << >> if it does not
ReadAs(form, line) ==
  LET found == M(form, line, 1, NoCaps)
  IN IF Len(found) = 0 THEN << >> ELSE <<1, found[1][1], found[1][2]>>

(***************************************************************************)
(* C8: a set line with no explicit index ("W:" followed directly by a      *)
(* weight of any number of digits) gets set_number = sets so far + 1 and   *)
(* the weight written on the line; a line with an explicit index gets that *)
(* index.                                                                  *)
(***************************************************************************)
C8_Step ==
  StepOnOpenExercise =>
    LET line == Strip(lines[i])
        bare == ReadAs(WarmupNoIndexForm, line)
        indexed == ReadAs(ExplicitIndexForm, line)
    IN /\ Matched(bare) =>
            /\ OneSetAdded
            /\ NewSet.set_number = Len(SetsBefore) + 1
            /\ NewSet.weight = FloatOf(Group(bare, line, 2))
       /\ Matched(indexed) =>
            /\ OneSetAdded
            /\ NewSet.set_number = IntOf(Group(indexed, line, 1))
            /\ NewSet.weight = FloatOf(Group(indexed, line, 2))

C8_SetIndexDefaulting == [][C8_Step]_vars

(***************************************************************************)
(* C9: a set from a line recognized through the "W:" label, in whatever    *)
(* letter case the grammar accepts it, has is_warmup = TRUE; a set from a  *)
(* line recognized through "Série" or "Set" has is_warmup = FALSE.         *)
(***************************************************************************)
C9_Step ==
  (StepOnOpenExercise /\ AnyGrammar(Strip(lines[i]))) =>
    LET line == Strip(lines[i])
        m == Search(SET_PATTERN, line)
    IN /\ OneSetAdded
       /\ NewSet.is_warmup <=> (Matched(m) /\ Lower(line[m[1]]) = "w")

C9_WarmupDetection == [][C9_Step]_vars

(***************************************************************************)
(* C10: a line that is neither blank nor a link takes exactly one class,   *)
(* the first that matches of weighted-reps, bodyweight-reps, duration,     *)
(* exercise-name; a line matching several set grammars gives one set,      *)
(* built from the first of them only.                                      *)
(***************************************************************************)
C10_Step ==
  StepOnOpenExercise =>
    LET line == Strip(lines[i])
        w == Search(SET_PATTERN, line)
        b == Search(BODYWEIGHT_PATTERN, line)
        d == Search(DURATION_PATTERN, line)
    IN IF Matched(w)
       THEN /\ OneSetAdded
            /\ NewSet.weight = FloatOf(Group(w, line, 2))
            /\ NewSet.reps = IntOf(Group(w, line, 3))
            /\ NewSet.duration = << >>
       ELSE IF Matched(b)
       THEN /\ OneSetAdded
            /\ NewSet.weight = None
            /\ NewSet.reps = IntOf(Group(b, line, 2))
            /\ NewSet.duration = << >>
       ELSE IF Matched(d)
       THEN /\ OneSetAdded
            /\ NewSet.weight = None
            /\ NewSet.reps = None
            /\ NewSet.duration = Group(d, line, 2)
       ELSE /\ current_exercise' = <<Exercise(line)>>
            /\ Len(exercises') <= Len(exercises) + 1

C10_GrammarPriority == [][C10_Step]_vars

\* a line matching the weighted and the duration grammar has given a
\* weighted set
C10_SeveralGrammarsOneSet ==
  /\ pc = "loop"
  /\ i > 3
  /\ i - 1 <= Len(lines)
  /\ Matched(Search(SET_PATTERN, Strip(lines[i - 1])))
  /\ Matched(Search(DURATION_PATTERN, Strip(lines[i - 1])))
  /\ current_exercise # NoExercise
  /\ Len(current_exercise[1].sets) = i - 4
  /\ i - 4 >= 2
  /\ current_exercise[1].sets[i - 4].weight # None

(***************************************************************************)
(* Texts for is_strong_workout: pieces of set lines, whole and split over  *)
(* lines, and links written in either case.                                *)
(***************************************************************************)
GateLines ==
  {<<"S", "e", "t">>, <<"1", ":">>, <<"S", "e", "t", " ", "1">>, <<"s", EAcute, "r", "i", "e", "2", ":">>, <<"5", " ", "k", "g">>, <<Times, " ", "8", " ", "r", "e", "p", "s">>,
   <<"W", ":", " ", "5", " ", "k", "g", " ", Times, " ", "8", " ", "r", "e", "p">>, <<"S", "t", "r", "o", "n", "g", ".", "A", "p", "p", "/", "x">>, <<"s", "t", "r", "o", "n", "g", " ", "a", "p", "p">>, NameA}

GateInit ==
  /\ text \in SeqsUpTo(GateLines, MaxGateLines)
  /\ dateparser_result = "date"
  /\ dateutil_result = "date"
  /\ Fresh
  /\ Alone

GateSpec == GateInit /\ [][GateNext]_vars

\* the character at position p, "" past the end
At(s, p) == IF p \in 1..Len(s) THEN s[p] ELSE ""
\* the word w, in either case, at position p
WordAt(s, p, w) == \A k \in 1..Len(w) : Lower(At(s, p + k - 1)) = w[k]
\* the first position from p on that holds no white space, no digit
RECURSIVE PastSpaces(_, _), PastDigits(_, _)
PastSpaces(s, p) == IF At(s, p) \in SpaceChars THEN PastSpaces(s, p + 1) ELSE p
PastDigits(s, p) == IF At(s, p) \in DigitChars THEN PastDigits(s, p + 1) ELSE p

\* a set label ("Set" or "Série"), an index and a colon
HasSetLabelWithIndex(s) ==
  \E p \in 1..Len(s), w \in {<<"s", "e", "t">>, <<"s", EAcute, "r", "i", "e">>} :
    /\ WordAt(s, p, w)
    /\ LET a == PastSpaces(s, p + Len(w))
           b == PastDigits(s, a)
       IN b > a /\ At(s, b) = ":"

\* "<number> kg × <number> reps"
HasKgTimesReps(s) ==
  \E p \in 1..Len(s) :
    /\ s[p] \in DigitChars
    /\ LET a == PastSpaces(s, p + 1)
           b == PastSpaces(s, a + 2)
           c == PastSpaces(s, b + 1)
           d == PastDigits(s, c)
       IN /\ WordAt(s, a, <<"k", "g">>)
          /\ At(s, b) = Times
          /\ d > c
          /\ WordAt(s, PastSpaces(s, d), <<"r", "e", "p">>)

\* the link of the app, in either case
HasAppLink(s) == \E p \in 1..Len(s) : WordAt(s, p, <<"s", "t", "r", "o", "n", "g", ".", "a", "p", "p">>)

(***************************************************************************)
(* C11: is_strong_workout(text) is true if and only if the text holds a    *)
(* set label with an index and a colon, or "<number> kg x <number> reps",  *)
(* or the link of the app; a text with none of the three is rejected.      *)
(***************************************************************************)
C11_GateIffMarker ==
  is_strong # "pending" =>
    (is_strong = "True" <=>
       \/ HasSetLabelWithIndex(Joined(text))
       \/ HasKgTimesReps(Joined(text))
       \/ HasAppLink(Joined(text)))

C11_AdmittedByLinkAlone ==
  /\ is_strong = "True"
  /\ ~HasSetLabelWithIndex(Joined(text))
  /\ ~HasKgTimesReps(Joined(text))
  /\ Len(text) = 1

C11_Rejected == is_strong = "False" /\ Len(text) = MaxGateLines

(***************************************************************************)
(* Date lines: a weekday name, written as the app and its users write it,  *)
(* before a date.                                                          *)
(***************************************************************************)
WeekdayPrefixes ==
  {<< >>, <<"t", "e", "r", CCedil, "a", "-", "f", "e", "i", "r", "a", ",", " ">>, <<"S", "e", "x", "t", "a", "-", "f", "e", "i", "r", "a", " ">>, <<"s", "e", "g", "u", "n", "d", "a", "-", "f", "e", "i", "r", "a", ",">>, <<"s", AAcute, "b", "a", "d", "o", ",", " ">>,
   <<"d", "o", "m", "i", "n", "g", "o", ",", " ">>, <<"T", "u", "e", "s", "d", "a", "y", ",", " ">>, <<"s", "u", "n", "d", "a", "y", " ">>}
DateRests == {DateText, <<"1", "2", " ", "d", "e", " ", "m", "a", "r", CCedil, "o">>}
DateBodies == {<< >>, <<NameA, WeightedLine>>, <<NameA, LongIndexLine>>}

DateInit ==
  /\ text \in {<<NameA, p \o r>> \o b : p \in WeekdayPrefixes, r \in DateRests, b \in DateBodies}
  /\ \E o \in DateOutcomes : dateparser_result = o[1] /\ dateutil_result = o[2]
  /\ Fresh
  /\ Alone

DateSpec == DateInit /\ [][Next]_vars

\* the weekday names the date block knows
WeekdayNames ==
  {<<"s", "e", "g", "u", "n", "d", "a">>, <<"t", "e", "r", CCedil, "a">>, <<"q", "u", "a", "r", "t", "a">>, <<"q", "u", "i", "n", "t", "a">>, <<"s", "e", "x", "t", "a">>, <<"s", AAcute, "b", "a", "d", "o">>, <<"d", "o", "m", "i", "n", "g", "o">>,
   <<"m", "o", "n", "d", "a", "y">>, <<"t", "u", "e", "s", "d", "a", "y">>, <<"w", "e", "d", "n", "e", "s", "d", "a", "y">>, <<"t", "h", "u", "r", "s", "d", "a", "y">>, <<"f", "r", "i", "d", "a", "y">>, <<"s", "a", "t", "u", "r", "d", "a", "y">>,
   <<"s", "u", "n", "d", "a", "y">>}
\* the length of the weekday prefix of a line: the name, "-feira" if written,
\* a comma if written, and the white space after them; 0 with no weekday name
WeekdayPrefixLen(line) ==
  IF \E w \in WeekdayNames : WordAt(line, 1, w)
  THEN LET w == CHOOSE w \in WeekdayNames : WordAt(line, 1, w)
           a == 1 + Len(w)
           b == IF WordAt(line, a, <<"-", "f", "e", "i", "r", "a">>) THEN a + 6 ELSE a
           c == IF At(line, b) = "," THEN b + 1 ELSE b
       IN PastSpaces(line, c) - 1
  ELSE 0
DateLine == Strip(lines[2])

(***************************************************************************)
(* C12: when the date line begins with a weekday name, Portuguese or       *)
(* English, the text handed to the date parsers is the date line without   *)
(* that prefix.                                                            *)
(***************************************************************************)
C12_WeekdayPrefixStripped ==
  (date_line_clean # Undefined /\ WeekdayPrefixLen(DateLine) > 0) =>
    date_line_clean = SubSeq(DateLine, WeekdayPrefixLen(DateLine) + 1, Len(DateLine))

(***************************************************************************)
(* Texts that are parsed, reported and submitted: an exercise-name line    *)
(* and then lines of every kind, and the example of the specification.     *)
(***************************************************************************)
LegDayText ==
  <<<<"L", "e", "g", " ", "D", "a", "y">>, <<"T", "u", "e", "s", "d", "a", "y">>, <<"S", "q", "u", "a", "t">>, <<"S", "e", "t", " ", "1", ":", " ", "6", "0", " ", "k", "g", " ", Times, " ", "8", " ", "r", "e", "p", "s">>,
    <<"S", "e", "t", " ", "2", ":", " ", "6", "0", " ", "k", "g", " ", Times, " ", "8", " ", "r", "e", "p", "s">>>>
ReportLines ==
  {NameB, <<"S", "e", "t", " ", "3", ":", " ", "2", "5", "0", ".", "5", " ", "k", "g", " ", Times, " ", "5", " ", "r", "e", "p", "s">>, <<"W", ":", " ", "4", "0", " ", "k", "g", " ", Times, " ", "1", "0", " ", "r", "e", "p", "s">>, <<"W", ":", " ", "0", " ", "k", "g", " ", Times, " ", "0", " ", "r", "e", "p", "s">>,
   BodyweightLine, <<"S", "e", "t", " ", "2", ":", " ", "0", " ", "r", "e", "p", "s">>, DurationLine, LongIndexLine}
ReportTexts ==
  {LegDayText}
  \cup {<<NameA, DateText, NameA>> \o b : b \in SeqsUpTo(ReportLines, MaxReportLines)}

ReportInit ==
  /\ text \in ReportTexts
  /\ \E o \in {<<"date", "date">>, <<"None", "ValueError">>} :
       dateparser_result = o[1] /\ dateutil_result = o[2]
  /\ Fresh
  /\ post_outcome \in PostOutcomes
  /\ other = NoCall
  /\ Idle

ReportSpec == ReportInit /\ [][ReportNext]_vars

\* the sets of the workout, each as <<exercise, place in the exercise>>
SetPlaces ==
  UNION {{<<k, j>> : j \in 1..Len(exercises[k].sets)} : k \in 1..Len(exercises)}

(***************************************************************************)
(* C13: the estimated duration is 120 seconds for every set plus 60        *)
(* seconds for every exercise; the lines 'Leg Day', 'Tuesday', 'Squat',    *)
(* 'Set 1: 60 kg x 8 reps', 'Set 2: 60 kg x 8 reps' give one exercise with *)
(* 2 sets and an estimated duration of 300.                                *)
(***************************************************************************)
C13_EstimatedDuration ==
  duration_seconds # None =>
    /\ duration_seconds = Cardinality(SetPlaces) * 120 + Len(exercises) * 60
    /\ text = LegDayText =>
         /\ Len(exercises) = 1
         /\ Len(exercises[1].sets) = 2
         /\ duration_seconds = 300

C13_LegDayEstimated ==
  /\ text = LegDayText
  /\ duration_seconds = 300
  /\ exercises[1].name = <<"S", "q", "u", "a", "t">>

\* a weighted set line as it is written: a label, an index if a colon closes
\* it, the weight, "kg", the times sign and the repetitions
WrittenWeightedForm ==
  Cat(<<Alt(SerieSet \o <<Lit(<<"w", ":">>)>>), Star(WS),
        Opt(Cat(<<Grp(1, Plus(D)), Chr({":"})>>)), Star(WS), Opt(Chr({"+"})),
        Grp(2, Weight), Star(WS), Lit(<<"k", "g">>), Star(WS), Chr({Times}), Star(WS),
        Grp(3, Plus(D)), Star(WS), Reps>>)
\* weight times repetitions as written on a line, 0 for a line with no weight
WrittenVolume(line) ==
  LET m == ReadAs(WrittenWeightedForm, line)
  IN IF Matched(m) THEN FloatOf(Group(m, line, 2)) * IntOf(Group(m, line, 3)) ELSE 0
\* the sum of the written volumes of the set lines from line k on that follow
\* an exercise-name line
RECURSIVE WrittenVolumeFrom(_)
WrittenVolumeFrom(k) ==
  IF k > Len(lines) THEN 0
  ELSE (IF k \in AcceptedSetLines THEN WrittenVolume(Strip(lines[k])) ELSE 0)
       + WrittenVolumeFrom(k + 1)

(***************************************************************************)
(* C14: the total volume of a parsed workout is the sum, over its sets, of *)
(* the weight written on the set's line times the repetitions written on   *)
(* it, a bodyweight or duration set counting 0.                            *)
(***************************************************************************)
C14_VolumeIsWrittenWeightTimesReps ==
  total_volume # None => total_volume = WrittenVolumeFrom(3)

(***************************************************************************)
(* C15: a call of format_workout_description leaves the workout as it was  *)
(* (name, date, exercises and every field of every set), and a call after  *)
(* the first returns the text the first returned.                          *)
(***************************************************************************)
C15_Step ==
  format_calls' = format_calls + 1 =>
    /\ workout_name' = workout_name
    /\ workout_date' = workout_date
    /\ exercises' = exercises
    /\ format_calls > 0 => description' = description

TwoCallTexts ==
  {<< >>,
   <<NameA, DateText, NameA, WeightedLine>>,
   <<NameA, DateText, NameB, BodyweightLine, NameA>>,
   <<NameB, <<"t", "e", "r", CCedil, "a", "-", "f", "e", "i", "r", "a", ",", " ", "1", "2", "/", "0", "3">>, NameB, DurationLine, WeightedLine>>,
   <<NameA, DateText, WeightedLine>>,
   <<NameA, DateText, NameA, LongIndexLine>>}
TwoCallOutcomes == {<<"date", "date">>, <<"None", "OverflowError">>}

TwoCallInit ==
  /\ text \in TwoCallTexts
  /\ \E o \in TwoCallOutcomes : dateparser_result = o[1] /\ dateutil_result = o[2]
  /\ Fresh
  /\ post_outcome = "ok"
  /\ other \in {Call(t, o[1], o[2]) : t \in TwoCallTexts, o \in TwoCallOutcomes}
  /\ Idle

TwoCallSpec == TwoCallInit /\ [][TwoCallNext]_vars

\* the loop over the lines ls from line k on, and the flush after it
RECURSIVE RunLoop(_, _, _, _)
RunLoop(ls, k, exs, cur) ==
  IF k > Len(ls) THEN [exercises |-> FlushLast(exs, cur), raised |-> FALSE]
  ELSE LET r == LoopBody(ls[k], exs, cur)
       IN IF r.raised THEN [exercises |-> r.exercises, raised |-> TRUE]
          ELSE RunLoop(ls, k + 1, r.exercises, r.current_exercise)

\* what a call returns: nothing, or the workout with its name, date, exercises
Returned(res, name, date, exs) ==
  IF res = "Workout" THEN <<res, name, date, exs>> ELSE <<res>>
\* what a call on text t returns when it runs alone
Solo(t, dp, du) ==
  LET ls == StripSplit(t)
      d == ResolveDate(ls, dp, du)
      r == RunLoop(ls, 3, << >>, NoExercise)
  IN IF d.raised # "none" \/ r.raised \/ Len(r.exercises) = 0 THEN <<"None">>
     ELSE <<"Workout", Strip(ls[1]), d.date, r.exercises>>

(***************************************************************************)
(* C16: however the steps of two calls of parse_workout interleave, each   *)
(* call returns what it returns when run alone on its text.                *)
(***************************************************************************)
C16_NoInterference ==
  /\ pc = "done" =>
       Returned(result, workout_name, workout_date, exercises)
         = Solo(text, dateparser_result, dateutil_result)
  /\ other.pc = "done" =>
       Returned(other.result, other.workout_name, other.workout_date, other.exercises)
         = Solo(other.text, other.dateparser_result, other.dateutil_result)

C16_ReturnedWhileOtherBuilds ==
  /\ pc = "done"
  /\ result = "Workout"
  /\ other.pc = "loop"
  /\ other.i > 3
  /\ other.current_exercise # NoExercise
  /\ other.current_exercise # current_exercise

(***************************************************************************)
(* C17: the first line is taken as the workout name and the second, if     *)
(* there is one, as the date line; the loop is entered whether or not the  *)
(* date resolves, with no exercise open and no set added by the first two  *)
(* lines, whatever they look like; the loop then passes every line from    *)
(* the third on, one after the other.                                      *)
(***************************************************************************)
C17_Step ==
  /\ pc = "start" =>
       /\ pc' = "date"
       /\ workout_name' = Strip(lines'[1])
  /\ pc = "date" =>
       /\ pc' = "loop"
       /\ i' = 3
       /\ workout_name' = workout_name
       /\ exercises' = << >>
       /\ current_exercise' = NoExercise
  /\ (pc = "loop" /\ pc' = "loop") =>
       /\ i \in 3..Len(lines)
       /\ i' = i + 1
       /\ workout_name' = workout_name
  /\ pc' = "return" => i > Len(lines)

C17_BuilderStateOrder == [][C17_Step]_vars

(***************************************************************************)
(* Texts with several exercises and sets of several kinds.                 *)
(***************************************************************************)
OrderLines == {NameA, NameB, BodyweightLine, DurationLine, <<"S", "e", "t", " ", "2", ":", " ", "0", " ", "r", "e", "p", "s">>}

OrderInit ==
  /\ text \in {<<NameA, DateText>> \o b : b \in SeqsUpTo(OrderLines, MaxOrderLines)}
  /\ \E o \in {<<"date", "date">>, <<"None", "OverflowError">>} :
       dateparser_result = o[1] /\ dateutil_result = o[2]
  /\ Fresh
  /\ Alone

OrderSpec == OrderInit /\ [][Next]_vars

\* the indices in S, in ascending order
RECURSIVE Ascending(_)
Ascending(S) ==
  IF S = {} THEN << >>
  ELSE LET least == CHOOSE k \in S : \A m \in S : k <= m
       IN <<least>> \o Ascending(S \ {least})
\* the exercise-name lines, in the order of the text
NameLines == Ascending({k \in 3..Len(lines) : IsNameAt(k)})
\* the set lines whose nearest preceding exercise-name line is line k
SetLinesOf(k) ==
  Ascending({m \in (k + 1)..Len(lines) :
               IsSetAt(m) /\ \A q \in (k + 1)..m : ~IsNameAt(q)})
\* the set a set line gives when it is the n-th of its exercise
SetFromLine(n, m) ==
  MakeSet(Strip(lines[m]), LineClass(Strip(lines[m])),
          [name |-> << >>, sets |-> [q \in 1..(n - 1) |-> << >>]])

(***************************************************************************)
(* C18: in a returned workout the exercises are in the order of their name *)
(* lines, the sets of an exercise are in the order of their set lines, and *)
(* the sets of an exercise are those of the set lines whose nearest        *)
(* preceding exercise-name line is the exercise's.                         *)
(***************************************************************************)
C18_OrderAndParentage ==
  (pc = "done" /\ result = "Workout") =>
    /\ Len(exercises) <= Len(NameLines)
    /\ \A j \in 1..Len(exercises) :
         LET k == NameLines[j]
             from == SetLinesOf(k)
         IN /\ exercises[j].name = Strip(lines[k])
            /\ Len(exercises[j].sets) = Len(from)
            /\ \A n \in 1..Len(from) : exercises[j].sets[n] = SetFromLine(n, from[n])

C18_TwoExercisesWithSets ==
  /\ pc = "done"
  /\ result = "Workout"
  /\ Len(exercises) = 2
  /\ exercises[1].name # exercises[2].name
  /\ Len(exercises[1].sets) = 1
  /\ Len(exercises[2].sets) = 1
  /\ exercises[1].sets[1] # exercises[2].sets[1]

\* a blank line, or a line whose text begins with "http"
IsBlankOrLink(raw) ==
  \/ \A k \in 1..Len(raw) : raw[k] \in SpaceChars
  \/ \E p \in 1..Len(raw) :
       /\ \A k \in 1..(p - 1) : raw[k] \in SpaceChars
       /\ \A k \in 1..4 : At(raw, p + k - 1) = <<"h", "t", "t", "p">>[k]
\* the lines with the blank lines and the link lines after the date line out
WithoutBlankOrLink(ls) ==
  IF Len(ls) <= 2 THEN ls
  ELSE SubSeq(ls, 1, 2)
       \o SelectSeq(SubSeq(ls, 3, Len(ls)), LAMBDA raw : ~IsBlankOrLink(raw))

(***************************************************************************)
(* C19: a blank line or a link line met in the loop leaves the exercise    *)
(* list, the open exercise and its sets as they were, and the call returns *)
(* what it returns on the text without the blank and link lines that       *)
(* follow the date line.                                                   *)
(***************************************************************************)
C19_Step ==
  /\ (pc = "loop" /\ i <= Len(lines) /\ IsBlankOrLink(lines[i])) =>
       /\ pc' = "loop"
       /\ exercises' = exercises
       /\ current_exercise' = current_exercise
  /\ (pc # "done" /\ pc' = "done") =>
       Returned(result', workout_name', workout_date', exercises')
         = Solo(WithoutBlankOrLink(lines), dateparser_result, dateutil_result)

C19_BlankAndLinkLinesSkipped == [][C19_Step]_vars

C19_LinkLineBetween ==
  /\ pc = "done"
  /\ result = "Workout"
  /\ Len(lines) = 5
  /\ IsBlankOrLink(lines[4])
  /\ lines[4] # BlankLine

\* str.split('\n')
RECURSIVE SplitLines(_)
SplitLines(s) ==
  IF \E k \in 1..Len(s) : s[k] = "\n"
  THEN LET k == CHOOSE k \in 1..Len(s) : s[k] = "\n" /\ \A q \in 1..(k - 1) : s[q] # "\n"
       IN <<SubSeq(s, 1, k - 1)>> \o SplitLines(SubSeq(s, k + 1, Len(s)))
  ELSE <<s>>

\* the lines the report spends on the exercises before the j-th: for each a
\* blank line, a heading and one line per set
RECURSIVE LinesBefore(_)
LinesBefore(j) ==
  IF j <= 1 THEN 0 ELSE LinesBefore(j - 1) + 2 + Len(exercises[j - 1].sets)
\* the line of the report for set n of exercise j
ReportLineOf(j, n) == SplitLines(description)[LinesBefore(j) + 2 + n]

HasDuration(ws) == Len(ws.duration) > 0
\* a weight, a repetition count that is there and is not zero
HasWeight(ws) == ws.weight # None /\ ws.weight > 0
HasReps(ws) == ws.reps # None /\ ws.reps > 0
\* "Warmup:" if flagged, the weight, the repetitions, joined by the separator
Composition(ws) ==
  Join((IF ws.is_warmup THEN <<<<"W", "a", "r", "m", "u", "p", ":">>>> ELSE << >>)
       \o (IF HasWeight(ws) THEN <<FloatStr(ws.weight) \o <<" ", "k", "g">>>> ELSE << >>)
       \o (IF HasReps(ws) THEN <<IntStr(ws.reps) \o <<" ", "r", "e", "p", "s">>>> ELSE << >>),
       <<" ", Times, " ">>)
\* what the claim says a set's line is, 'Bodyweight' being written when
\* `bodyweight` holds of the set
SetLineAsClaimed(ws, bodyweight) ==
  <<" ", " ", "S", "e", "t", " ">> \o IntStr(ws.set_number) \o <<":", " ">>
  \o (IF HasDuration(ws) THEN ws.duration
      ELSE IF bodyweight THEN <<"B", "o", "d", "y", "w", "e", "i", "g", "h", "t">>
      ELSE Composition(ws))
\* the report holds one line per set and nothing else but, per exercise, a
\* blank line and a heading, and the summary block after a blank line
OneLinePerSet ==
  Len(SplitLines(description)) =
    LinesBefore(Len(exercises) + 1) + 4 + (IF get_total_volume(exercises) > 0 THEN 1 ELSE 0)

(***************************************************************************)
(* C20: the report has exactly one line per set, under the heading of its  *)
(* exercise: the duration token alone for a set with a duration; else      *)
(* 'Warmup' (if flagged), weight and reps in that order joined by the      *)
(* separator; and 'Bodyweight' exactly when the set has no weight, no reps *)
(* and no duration (a weight or a count of zero read as none).             *)
(***************************************************************************)
C20_BodyweightIffNothingPresent ==
  description # Undefined =>
    /\ OneLinePerSet
    /\ \A j \in 1..Len(exercises) : \A n \in 1..Len(exercises[j].sets) :
         LET ws == exercises[j].sets[n]
         IN ReportLineOf(j, n) = SetLineAsClaimed(ws, ~HasWeight(ws) /\ ~HasReps(ws))

(***************************************************************************)
(* C20, amended: as above, but 'Bodyweight' is written exactly when the    *)
(* set has no duration, is not flagged as a warmup and has neither a       *)
(* weight nor a repetition count other than zero; a flagged set with       *)
(* nothing else is written as 'Warmup:' alone.                             *)
(***************************************************************************)
C20_BodyweightIffNothingToWrite ==
  description # Undefined =>
    /\ OneLinePerSet
    /\ \A j \in 1..Len(exercises) : \A n \in 1..Len(exercises[j].sets) :
         LET ws == exercises[j].sets[n]
         IN ReportLineOf(j, n)
              = SetLineAsClaimed(ws, ~ws.is_warmup /\ ~HasWeight(ws) /\ ~HasReps(ws))

C20_WarmupAloneAndBodyweight ==
  /\ description # Undefined
  /\ Len(exercises) = 1
  /\ Len(exercises[1].sets) = 2
  /\ ReportLineOf(1, 1) = <<" ", " ", "S", "e", "t", " ", "1", ":", " ", "W", "a", "r", "m", "u", "p", ":">>
  /\ ReportLineOf(1, 2) = <<" ", " ", "S", "e", "t", " ", "2", ":", " ", "B", "o", "d", "y", "w", "e", "i", "g", "h", "t">>

(***************************************************************************)
(* The bot: one update, handled by the handler registered for its kind.    *)
(***************************************************************************)
\* the one id of the whitelist
Owner == 337053497

\* a slip of the whitelist: nobody is asked
is_user_authorized_open(uid) == TRUE

\* _is_user_authorized(user_id): an empty whitelist allows everybody
is_user_authorized(uid) ==
  IF ALLOWED_USERS = {} THEN TRUE ELSE uid \in ALLOWED_USERS

\* test_connection(): True, or False from the one handler it has; any other
\* exception leaves it
TestConnection(outcome) ==
  CASE outcome = "ok" -> "True"
    [] outcome = "RequestException" -> "False"
    [] OTHER -> "raised"

handler_state == <<ALLOWED_USERS, user_id, update, connection_outcome>>

\* what the gate, the report and the client hold
call_state == <<is_strong, description, format_calls, post_outcome, total_volume,
                estimated_load, duration_seconds, created, other>>

Reply(r) == replies' = Append(replies, r)

\* start_command: the welcome, for an authorized user
StartCommand ==
  /\ update = "start"
  /\ handler_pc = "start"
  /\ Reply(IF is_user_authorized(user_id) THEN "Welcome" ELSE "Not authorized")
  /\ handler_pc' = "done"
  /\ UNCHANGED <<parse_state, call_state, handler_state, connected, main_state>>

\* help_command
HelpCommand ==
  /\ update = "help"
  /\ handler_pc = "start"
  /\ Reply(IF is_user_authorized(user_id) THEN "Help" ELSE "Not authorized")
  /\ handler_pc' = "done"
  /\ UNCHANGED <<parse_state, call_state, handler_state, connected, main_state>>

\* test_command, up to the reply that the test begins
TestCommand ==
  /\ update = "test"
  /\ handler_pc = "start"
  /\ IF is_user_authorized(user_id)
     THEN Reply("Testing connection") /\ handler_pc' = "test"
     ELSE Reply("Not authorized") /\ handler_pc' = "done"
  /\ UNCHANGED <<parse_state, call_state, handler_state, connected, main_state>>

\* test_command: the connection test and the reply on what it returned
TestCommandConnection ==
  /\ handler_pc = "test"
  /\ connected' = TestConnection(connection_outcome)
  /\ CASE connected' = "True" -> Reply("Connection successful") /\ handler_pc' = "done"
       [] connected' = "False" -> Reply("Connection failed") /\ handler_pc' = "done"
       [] OTHER -> UNCHANGED replies /\ handler_pc' = "raised"
  /\ UNCHANGED <<parse_state, call_state, handler_state, main_state>>

\* handle_message: the authorization check
Authorize ==
  /\ update = "message"
  /\ handler_pc = "start"
  /\ IF is_user_authorized(user_id)
     THEN UNCHANGED replies /\ handler_pc' = "gate"
     ELSE Reply("Not authorized") /\ handler_pc' = "done"
  /\ UNCHANGED <<parse_state, call_state, handler_state, connected, main_state>>

\* handle_message: the call of is_strong_workout(text)
Gate ==
  /\ handler_pc = "gate"
  /\ IsStrongWorkout

\* a slip of the handler: the parser is entered whatever the gate said
GatedOpen ==
  /\ handler_pc = "gate"
  /\ is_strong # "pending"
  /\ Reply("Parsing your workout")
  /\ handler_pc' = "parse"
  /\ UNCHANGED <<parse_state, call_state, handler_state, connected, main_state>>

\* handle_message: a text the gate refused ends here; one it admitted is
\* announced as being parsed
Gated ==
  /\ handler_pc = "gate"
  /\ is_strong # "pending"
  /\ IF is_strong = "True"
     THEN Reply("Parsing your workout") /\ handler_pc' = "parse"
     ELSE Reply("Not a Strong workout") /\ handler_pc' = "done"
  /\ UNCHANGED <<parse_state, call_state, handler_state, connected, main_state>>

\* handle_message: the call of parse_workout(text), step by step
ParseWorkout ==
  /\ handler_pc = "parse"
  /\ Next

\* handle_message: no workout ends here
Parsed ==
  /\ handler_pc = "parse"
  /\ pc = "done"
  /\ CASE result = "Workout" -> UNCHANGED replies /\ handler_pc' = "format"
       [] result = "None" -> Reply("Could not parse") /\ handler_pc' = "done"
       [] OTHER -> UNCHANGED replies /\ handler_pc' = "raised"
  /\ UNCHANGED <<parse_state, call_state, handler_state, connected, main_state>>

\* handle_message: the call of format_workout_description(workout)
FormatDescription ==
  /\ handler_pc = "format"
  /\ format_calls = 0
  /\ Format

\* handle_message: the workout is announced as parsed
Formatted ==
  /\ handler_pc = "format"
  /\ format_calls > 0
  /\ Reply("Workout parsed successfully")
  /\ handler_pc' = "create"
  /\ UNCHANGED <<parse_state, call_state, handler_state, connected, main_state>>

\* handle_message: the call of create_workout_activity(workout, description)
CreateActivity ==
  /\ handler_pc = "create"
  /\ CreateWorkoutActivity

\* handle_message: the reply on what create_workout_activity returned
Created ==
  /\ handler_pc = "create"
  /\ created # "pending"
  /\ CASE created = "dict" -> Reply("Workout created") /\ handler_pc' = "done"
       [] created = "None" -> Reply("Failed to create") /\ handler_pc' = "done"
       [] OTHER -> UNCHANGED replies /\ handler_pc' = "raised"
  /\ UNCHANGED <<parse_state, call_state, handler_state, connected, main_state>>

HandlerNext ==
  \/ StartCommand \/ HelpCommand \/ TestCommand \/ TestCommandConnection
  \/ Authorize \/ Gate \/ Gated \/ ParseWorkout \/ Parsed \/ FormatDescription
  \/ Formatted \/ CreateActivity \/ Created

\* "Set 1: 99...9 kg × 8 reps", the weight of over 308 digits
HugeWeightLine ==
  <<"S", "e", "t", " ", "1", ":", " ", HugeDigits, " ", "k", "g", " ", Times, " ", "8", " ",
    "r", "e", "p", "s">>

\* the texts of the updates: a workout, a weighted set, a text without a
\* marker, a link alone, a set whose index is too long, a weight too large
HandlerTexts ==
  {LegDayText, <<NameA, DateText, NameA, WeightedLine>>, <<NameA, DateText, NameA>>,
   <<NameA, DateText, LinkLine>>, <<NameA, DateText, NameA, LongIndexLine>>,
   <<NameA, DateText, NameA, HugeWeightLine>>}

Whitelists == {{}, {Owner}, {Owner, Owner + 1}}
UserIds == {Owner, Owner + 1, Owner + 2}
ConnectionOutcomes == {"ok", "RequestException", "Exception"}

\* main() not entered
NoMain ==
  /\ TELEGRAM_BOT_TOKEN = "None"
  /\ INTERVALS_API_KEY = "None"
  /\ INTERVALS_ATHLETE_ID = "None"
  /\ main_pc = "none"
  /\ bot = "none"
  /\ run_outcome = "runs"
  /\ polling = "no"
  /\ exit_status = None

HandlerInit ==
  /\ text \in HandlerTexts
  /\ \E o \in {<<"date", "date">>, <<"None", "OverflowError">>} :
       dateparser_result = o[1] /\ dateutil_result = o[2]
  /\ Fresh
  /\ post_outcome \in PostOutcomes
  /\ other = NoCall
  /\ ALLOWED_USERS \in Whitelists
  /\ user_id \in UserIds
  /\ update \in {"message", "start", "help", "test"}
  /\ handler_pc = "start"
  /\ replies = << >>
  /\ connection_outcome \in ConnectionOutcomes
  /\ connected = "pending"
  /\ NoMain

HandlerSpec == HandlerInit /\ [][HandlerNext]_vars

(***************************************************************************)
(* The order of the calls made for one text message.                       *)
(***************************************************************************)
\* a step of the handler keeps the order of the pipeline
C21_Step ==
  /\ pc' # "start" => is_strong' = "True"
  /\ created' # "pending" => is_strong' = "True" /\ pc' = "done" /\ result' = "Workout"
  /\ created # "pending" =>
       UNCHANGED <<created, total_volume, estimated_load, duration_seconds>>
  /\ is_strong' = "False" \/ result' \in {"None", "raised"} => created' = "pending"

\* C21: for a text message, parse_workout is entered only after
\* is_strong_workout returned true; create_workout_activity is called at most
\* once, and only after parse_workout returned a Workout; a message that
\* fails the gate or the parse never reaches the remote API.
C21_PipelineOrder == [][C21_Step]_vars

\* a message went through the whole pipeline and the activity was submitted
C21_ActivitySubmitted ==
  /\ update = "message"
  /\ handler_pc = "done"
  /\ is_strong = "True"
  /\ result = "Workout"
  /\ created # "pending"

(***************************************************************************)
(* The whitelist.                                                          *)
(***************************************************************************)
Refused == ALLOWED_USERS # {} /\ user_id \notin ALLOWED_USERS

Said(r) == \E k \in 1..Len(replies) : replies[k] = r

\* C22: with a non-empty whitelist, a command or a message of a user who is
\* not on it gets the 'Not authorized' reply and nothing else: the gate, the
\* parser, the connection test and the creation of the activity are never
\* called; with an empty whitelist nobody is refused.
C22_AuthorizationGate ==
  /\ Refused =>
       /\ replies \in {<< >>, <<"Not authorized">>}
       /\ handler_pc \in {"start", "done"}
       /\ handler_pc = "done" => replies = <<"Not authorized">>
       /\ is_strong = "pending"
       /\ pc = "start" /\ result = "pending"
       /\ format_calls = 0
       /\ connected = "pending"
       /\ created = "pending"
  /\ ~Refused =>
       /\ ~Said("Not authorized")
       /\ handler_pc = "done" => replies # << >>

\* a user who is not on the whitelist was answered, whatever was sent
C22_StrangerAnswered ==
  /\ Refused
  /\ handler_pc = "done"
  /\ update \in {"message", "test"}

(***************************************************************************)
(* The replies to one text message.                                        *)
(***************************************************************************)
FinalReplies ==
  {"Not authorized", "Not a Strong workout", "Could not parse", "Workout created",
   "Failed to create"}

\* the handler returned, or an exception left it
Ended == handler_pc \in {"done", "raised"}

SaidBefore(r, k) == \E j \in 1..(k - 1) : replies[j] = r

\* C23: a handled text message ends with exactly one final outcome reply
\* (not authorized, not a Strong workout, could not parse, workout created,
\* failed to create), which is its last reply; 'Parsing your workout' comes
\* before any parse outcome and 'parsed successfully' before the outcome of
\* the creation.
C23_OneFinalReply ==
  update = "message" =>
    /\ Ended =>
         /\ Cardinality({k \in 1..Len(replies) : replies[k] \in FinalReplies}) = 1
         /\ replies[Len(replies)] \in FinalReplies
    /\ \A k \in 1..Len(replies) :
         /\ replies[k] \in {"Could not parse", "Workout parsed successfully",
                            "Workout created", "Failed to create"}
              => SaidBefore("Parsing your workout", k)
         /\ replies[k] \in {"Workout created", "Failed to create"}
              => SaidBefore("Workout parsed successfully", k)

(***************************************************************************)
(* What create_workout_activity gives back.                                *)
(***************************************************************************)
\* the payload was built: the call came to its request
Requested == created # "pending" /\ estimated_load # None

\* C24: create_workout_activity reports a failed submission as a value: when
\* the request fails, the status is an error, or any other exception occurs
\* while posting or decoding, it returns None and does not raise; it returns
\* the response dict only after a successful status.
C24_SubmissionFailureIsNone ==
  /\ Requested =>
       /\ post_outcome = "ok" => created = "dict"
       /\ post_outcome \in {"HTTPError", "RequestException", "Exception"} => created = "None"
  /\ created = "dict" => post_outcome = "ok"
  /\ created = "raised" => ~Requested /\ EstimatedLoadRaises(total_volume)

\* the request failed with an error status and None came back
C24_ErrorStatusGaveNone ==
  /\ Requested
  /\ post_outcome = "HTTPError"
  /\ created = "None"

(***************************************************************************)
(* main(): the settings are validated, the connection is tested, the bot   *)
(* is constructed and run.                                                 *)
(***************************************************************************)
\* `not X` on a setting: os.getenv gave None or the empty string
Unset(x) == x \in {"None", ""}

\* validate_config(): the names of the settings that are missing
missing ==
  (IF Unset(TELEGRAM_BOT_TOKEN) THEN {"TELEGRAM_BOT_TOKEN"} ELSE {})
  \cup (IF Unset(INTERVALS_API_KEY) THEN {"INTERVALS_API_KEY"} ELSE {})
  \cup (IF Unset(INTERVALS_ATHLETE_ID) THEN {"INTERVALS_ATHLETE_ID"} ELSE {})

settings == <<TELEGRAM_BOT_TOKEN, INTERVALS_API_KEY, INTERVALS_ATHLETE_ID>>

Exit(status) == main_pc' = "exited" /\ exit_status' = status

\* validate_config() raises ValueError when a setting is missing, and main()
\* exits with 1 on it
ValidateConfig ==
  /\ main_pc = "start"
  /\ IF missing # {} THEN Exit(1) ELSE main_pc' = "connect" /\ UNCHANGED exit_status
  /\ UNCHANGED <<parse_state, call_state, handler_state, handler_pc, replies, connected,
                 settings, bot, run_outcome, polling>>

\* a slip of main(): the result of the connection test is not looked at
ConnectIgnoringResult ==
  /\ main_pc = "connect"
  /\ connected' = TestConnection(connection_outcome)
  /\ IF connected' = "raised" THEN Exit(1)
     ELSE main_pc' = "construct" /\ UNCHANGED exit_status
  /\ UNCHANGED <<parse_state, call_state, handler_state, handler_pc, replies, settings,
                 bot, run_outcome, polling>>

\* the client is made and the connection tested: sys.exit(1) on False, and
\* the last handler of main() exits with 1 on an exception
Connect ==
  /\ main_pc = "connect"
  /\ connected' = TestConnection(connection_outcome)
  /\ IF connected' = "True"
     THEN main_pc' = "construct" /\ UNCHANGED exit_status
     ELSE Exit(1)
  /\ UNCHANGED <<parse_state, call_state, handler_state, handler_pc, replies, settings,
                 bot, run_outcome, polling>>

\* WorkoutBot(...): the bot, or an exception of the library
ConstructBot ==
  /\ main_pc = "construct"
  /\ IF run_outcome = "constructor raises"
     THEN Exit(1) /\ UNCHANGED bot
     ELSE bot' = "constructed" /\ main_pc' = "run" /\ UNCHANGED exit_status
  /\ UNCHANGED <<parse_state, call_state, bot_state, settings, run_outcome, polling>>

\* bot.run(): run_polling is entered
Run ==
  /\ main_pc = "run"
  /\ polling' = "yes"
  /\ main_pc' = "polling"
  /\ UNCHANGED <<parse_state, call_state, bot_state, settings, bot, run_outcome,
                 exit_status>>

\* run_polling leaves: it returns, or KeyboardInterrupt (exit 0) or another
\* exception (exit 1) reaches the handlers of main()
Stop ==
  /\ main_pc = "polling"
  /\ Exit(IF run_outcome = "Exception" THEN 1 ELSE 0)
  /\ UNCHANGED <<parse_state, call_state, bot_state, settings, bot, run_outcome, polling>>

MainNext == ValidateConfig \/ Connect \/ ConstructBot \/ Run \/ Stop

SettingValues == {"None", "", "value"}
RunOutcomes == {"constructor raises", "returns", "KeyboardInterrupt", "Exception"}

\* no update is handled
NoUpdate ==
  /\ ALLOWED_USERS = {Owner}
  /\ user_id = None
  /\ update = "none"
  /\ handler_pc = "none"
  /\ replies = << >>

MainInit ==
  /\ text = << >>
  /\ dateparser_result = "date"
  /\ dateutil_result = "date"
  /\ Fresh
  /\ post_outcome = "ok"
  /\ other = NoCall
  /\ NoUpdate
  /\ connection_outcome \in ConnectionOutcomes
  /\ connected = "pending"
  /\ TELEGRAM_BOT_TOKEN \in SettingValues
  /\ INTERVALS_API_KEY \in SettingValues
  /\ INTERVALS_ATHLETE_ID \in SettingValues
  /\ main_pc = "start"
  /\ bot = "none"
  /\ run_outcome \in RunOutcomes
  /\ polling = "no"
  /\ exit_status = None

MainSpec == MainInit /\ [][MainNext]_vars

\* C25: the bot starts polling only after validate_config succeeded (the
\* three settings are present) and the connection test returned true; when a
\* setting is missing or the connection test fails, the process exits with
\* status 1 and the bot is neither constructed nor run.
C25_StartupOrder ==
  /\ bot = "constructed" \/ polling = "yes" => missing = {} /\ connected = "True"
  /\ polling = "yes" => bot = "constructed"
  /\ missing # {} =>
       /\ main_pc \in {"start", "exited"}
       /\ main_pc = "exited" => exit_status = 1
       /\ connected = "pending" /\ bot = "none" /\ polling = "no"
  /\ connected \in {"False", "raised"} =>
       /\ main_pc = "exited" /\ exit_status = 1
       /\ bot = "none" /\ polling = "no"

\* the connection test failed on complete settings and the process left
C25_ConnectionFailedExit ==
  /\ missing = {}
  /\ connected = "False"
  /\ main_pc = "exited"

====
